---------------------------- MODULE Spec2Model ----------------------------
(***************************************************************************)
(* A model of usbtool/main.c, the USB boot tool for the ChinaChip CC1800:  *)
(* the five vendor requests, the composites cc1800_upload,                 *)
(* cc1800_download and cc1800_execute, the scanner scan_ulong, the command *)
(* interpreter cc1800_fiddle and main.  A behaviour is a run of main, a     *)
(* call of cc1800_execute (which main never calls), or a call of           *)
(* cc1800_req_set_address or cc1800_req_set_length on its own.             *)
(*                                                                         *)
(* libusb, the C library and the device are the environment: every call    *)
(* into them is a step whose outcome is chosen nondeterministically among  *)
(* the outcomes the call can have (a negative error, a short count, the    *)
(* full count; NULL or a buffer; ...).                                     *)
(*                                                                         *)
(* Only the low 32 bits of an `unsigned long` reach the wire, so a value   *)
(* of that type is modelled by its low 32 bits.  TLC's integers are 32-bit *)
(* signed, so such a word is the record [top, low]: bit 31 and bits 0..30. *)
(***************************************************************************)
EXTENDS Integers, Sequences, FiniteSets, TLC

(***************************************************************************)
(* 32-bit words                                                            *)
(***************************************************************************)
Two15 == 32768
Two16 == 65536
Two30 == 1073741824

W(t, l) == [top |-> t, low |-> l]

\* a value 0 .. 2^31-1 as a word
Nat2W(n) == W(0, n)

\* mutant: bit 31 is lost in the shift
Shr16Drop(x) == x.low \div Two16

\* (x >> 16) & 0xFFFF
Shr16Mask(x) == x.top * Two15 + (x.low \div Two16)

\* (x >> 0) & 0xFFFF
Low16(x) == x.low % Two16

\* (high << 16) | low, for two 16-bit fields
FromHiLo(high, low) == W(high \div Two15, (high % Two15) * Two16 + low)

\* x |= 0x80000000
OrBit31(x) == [x EXCEPT !.top = 1]

\* mutant: bit 31 is left as it is
KeepBit31(x) == x

\* x &= ~0x80000000
ClearBit31(x) == [x EXCEPT !.top = 0]

\* unsigned long -> int (gcc: reduced modulo 2^32 into the int range)
ToInt(x) == IF x.top = 1 THEN (x.low - Two30) - Two30 ELSE x.low

\* int -> unsigned long (sign extension; the low 32 bits)
FromInt(n) == IF n < 0 THEN W(1, (n + Two30) + Two30) ELSE W(0, n)

\* x * k + d modulo 2^32, for a small k: one digit step of strtoul
MulAdd(x, k, d) ==
    LET lo == Low16(x) * k + d
        hi == (Shr16Mask(x) * k + lo \div Two16) % Two16
    IN  FromHiLo(hi, lo % Two16)

(***************************************************************************)
(* Command-line words.  argv holds names; Chars gives the characters of    *)
(* the C string each name stands for.                                      *)
(***************************************************************************)
Chars(tok) ==
    CASE tok = "write"       -> <<"w", "r", "i", "t", "e">>
      [] tok = "read"        -> <<"r", "e", "a", "d">>
      [] tok = "exec"        -> <<"e", "x", "e", "c">>
      [] tok = "status"      -> <<"s", "t", "a", "t", "u", "s">>
      [] tok = "0x0"         -> <<"0", "x", "0">>
      [] tok = "0x1000"      -> <<"0", "x", "1", "0", "0", "0">>
      [] tok = "0x2000"      -> <<"0", "x", "2", "0", "0", "0">>
      [] tok = "0X10"        -> <<"0", "X", "1", "0">>
      [] tok = "0x80000002"  -> <<"0", "x", "8", "0", "0", "0", "0", "0", "0", "2">>
      [] tok = "0x"          -> <<"0", "x">>
      [] tok = "0xzz"        -> <<"0", "x", "z", "z">>
      [] tok = "64"          -> <<"6", "4">>
      [] tok = "zz"          -> <<"z", "z">>
      [] tok = "a.bin"       -> <<"a", ".", "b", "i", "n">>
      [] tok = "payload.bin" -> <<"p", "a", "y", "l", "o", "a", "d">>
      [] tok = "empty.bin"   -> <<"e", "m", "p", "t", "y">>
      [] tok = "none.bin"    -> <<"n", "o", "n", "e">>
      [] tok = "out.bin"     -> <<"o", "u", "t">>
      [] OTHER               -> <<>>

\* strcmp(a, b) == 0
StrEq(a, b) == Chars(a) = Chars(b)

HexDigits == <<"0", "1", "2", "3", "4", "5", "6", "7", "8", "9",
               "a", "b", "c", "d", "e", "f">>
UpperHex == <<"A", "B", "C", "D", "E", "F">>

\* the value of a digit character in the given base, or -1
DigitVal(c, base) ==
    LET lower == {i \in 1..16 : HexDigits[i] = c}
        upper == {i \in 1..6 : UpperHex[i] = c}
        v == IF lower # {} THEN (CHOOSE i \in lower : TRUE) - 1
             ELSE IF upper # {} THEN (CHOOSE i \in upper : TRUE) + 9
             ELSE -1
    IN  IF v < base THEN v ELSE -1

\* the number of leading digits of s in the given base
RECURSIVE DigitRun(_, _)
DigitRun(s, base) ==
    IF s = <<>> \/ DigitVal(Head(s), base) < 0 THEN 0
    ELSE 1 + DigitRun(Tail(s), base)

\* the value of the first n characters of s, all digits, continuing from acc
RECURSIVE Accumulate(_, _, _, _)
Accumulate(s, n, base, acc) ==
    IF n = 0 THEN acc
    ELSE Accumulate(Tail(s), n - 1, base, MulAdd(acc, base, DigitVal(Head(s), base)))

EOF == -1

\* sscanf(s, "%lx", &v) for base 16 and sscanf(s, "%lu", &v) for base 10, on
\* a string without white space or sign: the number of conversions (EOF at
\* the end of the input, 0 when no digit starts the string), and the value
\* stored in v (old: v is left alone when nothing is converted).
Sscanf(s, base, old) ==
    IF s = <<>> THEN [n |-> EOF, v |-> old]
    ELSE IF DigitRun(s, base) = 0 THEN [n |-> 0, v |-> old]
    ELSE [n |-> 1, v |-> Accumulate(s, DigitRun(s, base), base, Nat2W(0))]


\* scan_ulong(str, addr): the value returned and the value *addr holds after
scan_ulong(str, old) ==
    LET s == Chars(str)
        prefixed == Len(s) >= 2 /\ s[1] = "0" /\ s[2] \in {"x", "X"}
        hex == Sscanf(SubSeq(s, 3, Len(s)), 16, old)
        dec == Sscanf(s, 10, old)
    IN  IF prefixed
        THEN (IF hex.n # 0 THEN [r |-> 0, v |-> hex.v] ELSE [r |-> -1, v |-> hex.v])
        ELSE (IF ~(dec.n # 0) THEN [r |-> 0, v |-> dec.v] ELSE [r |-> -1, v |-> dec.v])

(***************************************************************************)
(* Program constants                                                       *)
(***************************************************************************)
CC1800_REQ_GET_CPU_INFO == 0
CC1800_REQ_SET_ADDRESS == 1
CC1800_REQ_SET_LENGTH == 2
CC1800_REQ_GET_STATUS == 3
CC1800_REQ_EXECUTE == 4
EIO == 5

(***************************************************************************)
(* Bounds of the model                                                     *)
(***************************************************************************)
\* the largest number of command templates chained on the command line
MaxCmds == 3

\* the largest number of words after the program name
MaxWords == 6

(***************************************************************************)
(* The environment: files, libusb results, the device                      *)
(***************************************************************************)
\* the bytes of the files that exist; fopen fails on every other name
FileExists(name) == name \in {"a.bin", "payload.bin", "empty.bin"}
FileData(name) ==
    CASE name = "a.bin"       -> <<7>>
      [] name = "payload.bin" -> [k \in 1..16 |-> k]
      [] OTHER                -> <<>>

\* the negative values libusb returns for a failed transfer
UsbErrors == {-110}

\* a byte of a buffer that malloc or alloca returned and nothing wrote
UNINIT == -1

\* the results of usb_control_msg with a data phase of size bytes
ControlResults(size) == UsbErrors \cup {size}

\* the byte counts short of a bulk transfer of n bytes: one byte short,
\* which is nothing at all for a transfer of one byte
ShortCounts(n) == {k \in {n - 1} : 0 <= k}

\* the results of usb_bulk_write and usb_bulk_read asked for n bytes
BulkResults(n) == UsbErrors \cup ShortCounts(n) \cup {k \in {n} : k >= 0}

\* the values an uninitialised unsigned long of cc1800_fiddle may hold when
\* it is first read; UNSET marks the variable until then
Garbage == {W(0, 3), W(1, 5)}
UNSET == W(-1, -1)

\* the number of bytes of a buffer the model holds: a buffer whose length
\* is negative as an int receives nothing
BufLen(n) == IF n >= 0 THEN n ELSE 0

Fresh(n) == [k \in 1..BufLen(n) |-> UNINIT]

\* the first n bytes of b
Take(b, n) == SubSeq(b, 1, n)

\* buf after its first n bytes were replaced by got
Store(buf, got) ==
    [k \in 1..Len(buf) |-> IF k <= Len(got) THEN got[k] ELSE buf[k]]

\* the outcomes of memcmp(a, b, n) # 0: reading an uninitialised byte gives
\* an indeterminate value, hence either outcome, unless an initialised byte
\* before it already differs
Memcmp(a, b, n) ==
    LET bad == {k \in 1..n : a[k] = UNINIT \/ b[k] = UNINIT}
        dif == {k \in 1..n : a[k] # b[k] /\ k \notin bad}
    IN  IF bad = {} THEN {dif # {}}
        ELSE IF \E k \in dif : \A j \in bad : k < j THEN {TRUE}
        ELSE BOOLEAN


\* the entries of the heap history: malloc returning b, free(b)
Malloc(b) == [op |-> "malloc", buf |-> b]
Free(b) == [op |-> "free", buf |-> b]

\* a read or a write of the bytes of buffer b
Use(b) == [op |-> "use", buf |-> b]

(***************************************************************************)
(* The state                                                               *)
(***************************************************************************)
VARIABLES
    mode,     \* "main": a run of main; "execute": a call of cc1800_execute;
              \* "request": a call of cc1800_req_set_address or _set_length
    argv,     \* the command line, argv[k + 1] being C's argv[k]
    pc,       \* the statement the program is at
    i,        \* cc1800_fiddle: the argument index
    r,        \* the last result (r of cc1800_fiddle, of main, of cc1800_execute)
    cpu,      \* cc1800_fiddle: 1 once the CPU info was shown
    addr,     \* cc1800_fiddle: addr; cc1800_execute: address
    len,      \* cc1800_fiddle: len; cc1800_execute: length (as a word)
    data,     \* the bytes of data, <<>> while it points nowhere
    verify,   \* the bytes of verify (check in cc1800_execute)
    call,     \* the running cc1800_upload or cc1800_download
    handle,   \* "none", "open" or "closed"
    opens,    \* the number of successful usb_open calls
    closes,   \* the number of usb_close calls
    trace,    \* the USB transfers issued so far, in order
    out,      \* the messages printed so far, in order
    heap,     \* the malloc and free calls and the buffer accesses so far
    cmds,     \* the value of i at the start of each iteration of the loop
    reads,    \* the indices k of the argv[k] read so far, in order
    saved,    \* the files save_file wrote so far, in order
    dev,      \* the device: address and length registers, memory, executions
    ret       \* the value main or cc1800_execute returned, once pc = "done"

vars == <<mode, argv, pc, i, r, cpu, addr, len, data, verify, call, handle,
          opens, closes, trace, out, heap, cmds, reads, saved, dev, ret>>

\* the number of command entries begun
entries == Len(cmds)

argc == Len(argv)
Arg(k) == argv[k + 1]

NoCall == [fn |-> "none", length |-> 0, address |-> Nat2W(0), buf |-> "none",
           back |-> "none"]

\* the command lines: the program name, then up to MaxCmds of these word
\* groups (a group cut short swallows the words that follow it)
Templates ==
    { <<"write", "0x0", "a.bin">>,
      <<"write", "0x1000", "payload.bin">>,
      <<"write", "zz", "a.bin">>,
      <<"write", "0xzz", "a.bin">>,
      <<"write", "0x0", "none.bin">>,
      <<"write", "0x0", "empty.bin">>,
      <<"write", "0x0">>,
      <<"read", "0x2000", "64", "out.bin">>,
      <<"read", "0x2000", "0X10", "out.bin">>,
      <<"read", "0x0", "0x80000002", "out.bin">>,
      <<"read", "0x", "zz", "out.bin">>,
      <<"read", "0x0", "0X10">>,
      <<"exec">>,
      <<"status">> }

RECURSIVE ArgLists(_)
ArgLists(n) ==
    IF n = 0 THEN {<<"usbtool">>}
    ELSE ArgLists(n - 1) \cup
         {a \o t : a \in ArgLists(n - 1), t \in Templates}

\* the inputs of a call of cc1800_execute: data, length and address
ExecuteInputs ==
    {[data |-> FileData(f), address |-> a] :
        f \in {"a.bin", "payload.bin", "empty.bin"}, a \in {Nat2W(0), W(1, 4096)}}

\* the inputs of a call of cc1800_req_set_address (addr) or of
\* cc1800_req_set_length (len, wr): words around the 16-bit and the bit 31
\* boundaries, and the values the commands use
RequestWords ==
    {W(t, l) : t \in {0, 1},
               l \in {0, 1, 16, 64, 4096, 8192, Two15 - 1, Two15, Two16 - 1,
                      Two16, Two16 + 1, 305419896, Two30 - 1, Two30,
                      Two30 + (Two30 - 1)}}

RequestInputs ==
    {[fn |-> "req_set_address", addr |-> a, len |-> Nat2W(0), wr |-> 0] :
        a \in RequestWords}
    \cup
    {[fn |-> "req_set_length", addr |-> Nat2W(0), len |-> l, wr |-> w] :
        l \in RequestWords, w \in {0, 1}}

\* the device: its registers, the bytes stored by the last bulk write and
\* the address they are at, the addresses executed at, and whether a bulk
\* read delivered bytes other than those it holds
InitDev == [addr |-> Nat2W(0), len |-> Nat2W(0), base |-> Nat2W(0),
            mem |-> <<>>, runs |-> <<>>, damaged |-> FALSE]

Init ==
    /\ mode \in {"main", "execute", "request"}
    /\ CASE mode = "main" ->
              /\ argv \in {a \in ArgLists(MaxCmds) : Len(a) <= MaxWords + 1}
              /\ pc = "main"
              /\ addr = UNSET /\ len = UNSET
              /\ data = <<>>
              /\ handle = "none"
              /\ call = NoCall
         [] mode = "execute" ->
              /\ argv = <<>>
              /\ pc = "e_entry"
              /\ \E in \in ExecuteInputs :
                    /\ data = in.data
                    /\ addr = in.address
                    /\ len = Nat2W(Len(in.data))
              /\ handle = "open"
              /\ call = NoCall
         [] mode = "request" ->
              /\ argv = <<>>
              /\ pc = "q_request"
              /\ \E in \in RequestInputs :
                    /\ addr = in.addr
                    /\ len = in.len
                    /\ call = [fn |-> in.fn, wr |-> in.wr]
              /\ data = <<>>
              /\ handle = "open"
    /\ i = 0 /\ r = 0 /\ cpu = 0
    /\ verify = <<>>
    /\ opens = 0 /\ closes = 0
    /\ trace = <<>> /\ out = <<>> /\ heap = <<>>
    /\ cmds = <<>>
    /\ reads = <<>>
    /\ saved = <<>>
    /\ dev = InitDev
    /\ ret = 0

(***************************************************************************)
(* USB transfers                                                           *)
(***************************************************************************)
\* usb_control_msg(handle, type, request, value, index, bytes, size, TIMEOUT)
Control(request, value, index, size, res) ==
    [kind |-> "control", req |-> request, ep |-> 0, value |-> value,
     index |-> index, size |-> size, ret |-> res, entry |-> entries,
     handle |-> handle]

\* usb_bulk_write / usb_bulk_read (handle, ep, bytes, size, TIMEOUT)
Bulk(kind, ep, size, res) ==
    [kind |-> kind, req |-> -1, ep |-> ep, value |-> 0, index |-> 0,
     size |-> size, ret |-> res, entry |-> entries, handle |-> handle]

\* cc1800_req_get_cpu_info
ReqGetCpuInfo(res) == Control(CC1800_REQ_GET_CPU_INFO, 0, 0, 8, res)

\* mutant: the two fields are sent in the other order
ReqSetAddressSwapped(a, res) ==
    Control(CC1800_REQ_SET_ADDRESS, Low16(a), Shr16Mask(a), 0, res)

\* cc1800_req_set_address
ReqSetAddress(a, res) ==
    Control(CC1800_REQ_SET_ADDRESS, Shr16Mask(a), Low16(a), 0, res)

\* mutant: the direction flag is not applied
LengthWordRaw(l, wr) == l

\* cc1800_req_set_length: the word sent
LengthWord(l, wr) == IF wr # 0 THEN OrBit31(l) ELSE ClearBit31(l)

ReqSetLength(l, wr, res) ==
    Control(CC1800_REQ_SET_LENGTH, Shr16Mask(LengthWord(l, wr)),
            Low16(LengthWord(l, wr)), 0, res)

\* cc1800_req_get_status (no command uses it)
ReqGetStatus(res) == Control(CC1800_REQ_GET_STATUS, 0, 0, 1, res)

\* mutant: EXECUTE carries the address of the last command
ReqExecuteWithAddress(res) ==
    Control(CC1800_REQ_EXECUTE, Shr16Mask(addr), Low16(addr), 0, res)

\* cc1800_req_execute
ReqExecute(res) == Control(CC1800_REQ_EXECUTE, 0, 0, 0, res)

\* the device after a control request that succeeded
DevControl(d, q) ==
    IF q.ret < 0 THEN d
    ELSE CASE q.req = CC1800_REQ_SET_ADDRESS ->
                [d EXCEPT !.addr = FromHiLo(q.value, q.index)]
           [] q.req = CC1800_REQ_SET_LENGTH ->
                [d EXCEPT !.len = FromHiLo(q.value, q.index)]
           [] q.req = CC1800_REQ_EXECUTE ->
                [d EXCEPT !.runs = Append(d.runs, d.addr)]
           [] OTHER -> d

\* the device after n bytes of bytes arrived by a bulk write
DevWrite(d, bytes, n) ==
    IF n <= 0 THEN d ELSE [d EXCEPT !.base = d.addr, !.mem = Take(bytes, n)]

\* the n bytes a bulk read delivers: what the device holds at its address
\* register (0 where nothing was stored), or, for a full transfer damaged
\* on the way, 255s
DevRead(d, n, damaged) ==
    [k \in 1..BufLen(n) |->
        IF damaged THEN 255
        ELSE IF d.base = d.addr /\ k <= Len(d.mem) THEN d.mem[k] ELSE 0]


(***************************************************************************)
(* main, up to the call of cc1800_fiddle, and its exit                     *)
(***************************************************************************)
\* printf(m) and fprintf(stderr, m)
Say(m) == Append(out, [stream |-> "stdout", msg |-> m, entry |-> entries])
Err(m) == Append(out, [stream |-> "stderr", msg |-> m, entry |-> entries])

\* if (argc < 2) { fputs(help, stderr); return 1; }
MainArgs ==
    /\ pc = "main"
    /\ IF argc < 2
       THEN /\ ret' = 1 /\ pc' = "done" /\ out' = Err("help")
       ELSE /\ pc' = "find" /\ UNCHANGED <<ret, out>>
    /\ UNCHANGED <<mode, argv, reads, i, r, cpu, addr, len, data, verify, call,
                   handle, opens, closes, trace, heap, cmds, saved, dev>>

\* dev = cc1800_find(); if (dev == NULL) return 1;
Find ==
    /\ pc = "find"
    /\ \E found \in BOOLEAN :
          IF found
          THEN /\ pc' = "open" /\ UNCHANGED <<ret, out>>
          ELSE /\ ret' = 1 /\ pc' = "done"
               /\ out' = Err("ERROR: cannot find CC1800 device")
    /\ UNCHANGED <<mode, argv, reads, i, r, cpu, addr, len, data, verify, call,
                   handle, opens, closes, trace, heap, cmds, saved, dev>>

\* handle = usb_open(dev); if (handle == NULL) return 1;
Open ==
    /\ pc = "open"
    /\ \E opened \in BOOLEAN :
          IF opened
          THEN /\ handle' = "open" /\ opens' = opens + 1 /\ pc' = "setconf"
               /\ UNCHANGED <<ret, out>>
          ELSE /\ ret' = 1 /\ pc' = "done"
               /\ out' = Err("ERROR: cannot open device")
               /\ UNCHANGED <<handle, opens>>
    /\ UNCHANGED <<mode, argv, reads, i, r, cpu, addr, len, data, verify, call,
                   closes, trace, heap, cmds, saved, dev>>

\* r = usb_set_configuration(handle, 1); if (r < 0) ... else ...
SetConfiguration ==
    /\ pc = "setconf"
    /\ \E res \in UsbErrors \cup {0} :
          /\ r' = res
          /\ IF res < 0
             THEN pc' = "close" /\ out' = Err("ERROR: cannot set configuration")
             ELSE pc' = "claim" /\ out' = out
    /\ UNCHANGED <<mode, argv, reads, i, cpu, addr, len, data, verify, call, handle,
                   opens, closes, trace, heap, cmds, saved, dev, ret>>

\* r = usb_claim_interface(handle, 0); if (r < 0) ...
\* else r = cc1800_fiddle(handle, argc, argv);   (its i = 1, cpu = 0)
ClaimInterface ==
    /\ pc = "claim"
    /\ \E res \in UsbErrors \cup {0} :
          /\ r' = res
          /\ IF res < 0
             THEN /\ pc' = "close" /\ out' = Err("ERROR: cannot claim interface")
                  /\ UNCHANGED <<i, cpu>>
             ELSE /\ pc' = "loop" /\ out' = out /\ i' = 1 /\ cpu' = 0
    /\ UNCHANGED <<mode, argv, reads, addr, len, data, verify, call, handle,
                   opens, closes, trace, heap, cmds, saved, dev, ret>>

\* mutant: the handle is closed only when nothing failed
CloseUnlessFailed ==
    /\ pc = "close"
    /\ IF r < 0
       THEN closes' = closes /\ handle' = handle
       ELSE closes' = closes + 1 /\ handle' = "closed"
    /\ ret' = r
    /\ pc' = "done"
    /\ UNCHANGED <<mode, argv, reads, i, r, cpu, addr, len, data, verify, call,
                   opens, trace, out, heap, cmds, saved, dev>>

\* usb_close(handle); return r;
Close ==
    /\ pc = "close"
    /\ closes' = closes + 1
    /\ handle' = "closed"
    /\ ret' = r
    /\ pc' = "done"
    /\ UNCHANGED <<mode, argv, reads, i, r, cpu, addr, len, data, verify, call,
                   opens, trace, out, heap, cmds, saved, dev>>

(***************************************************************************)
(* cc1800_upload and cc1800_download                                       *)
(***************************************************************************)
Upload(length, address, back) ==
    [fn |-> "upload", length |-> length, address |-> address, buf |-> "data",
     back |-> back]

\* mutant: the download does not pass the address on
DownloadNoAddress(buf, length, address, back) ==
    [fn |-> "download", length |-> length, address |-> Nat2W(0), buf |-> buf,
     back |-> back]

Download(buf, length, address, back) ==
    [fn |-> "download", length |-> length, address |-> address, buf |-> buf,
     back |-> back]

\* r = cc1800_req_set_address(handle, address); if (r < 0) return r;
SetAddress ==
    /\ pc = "set_address"
    /\ \E res \in ControlResults(0) :
          LET q == ReqSetAddress(call.address, res) IN
          /\ trace' = Append(trace, q)
          /\ dev' = DevControl(dev, q)
          /\ IF res < 0
             THEN r' = res /\ pc' = call.back /\ call' = NoCall
             ELSE pc' = "set_length" /\ UNCHANGED <<r, call>>
    /\ UNCHANGED <<mode, argv, reads, i, cpu, addr, len, data, verify, handle,
                   opens, closes, out, heap, cmds, saved, ret>>

\* r = cc1800_req_set_length(handle, length, wr); if (r < 0) return r;
\* wr is 1 in cc1800_upload and 0 in cc1800_download
SetLength ==
    /\ pc = "set_length"
    /\ \E res \in ControlResults(0) :
          LET wr == IF call.fn = "upload" THEN 1 ELSE 0
              q == ReqSetLength(FromInt(call.length), wr, res) IN
          /\ trace' = Append(trace, q)
          /\ dev' = DevControl(dev, q)
          /\ IF res < 0
             THEN r' = res /\ pc' = call.back /\ call' = NoCall
             ELSE pc' = "bulk" /\ UNCHANGED <<r, call>>
    /\ UNCHANGED <<mode, argv, reads, i, cpu, addr, len, data, verify, handle,
                   opens, closes, out, heap, cmds, saved, ret>>

\* return usb_bulk_write(handle, 1, data, length, TIMEOUT);
BulkWrite ==
    /\ pc = "bulk" /\ call.fn = "upload"
    /\ \E res \in BulkResults(call.length) :
          /\ trace' = Append(trace, Bulk("bulk_write", 1, call.length, res))
          /\ dev' = DevWrite(dev, data, res)
          /\ r' = res
    /\ heap' = Append(heap, Use(call.buf))
    /\ pc' = call.back
    /\ call' = NoCall
    /\ UNCHANGED <<mode, argv, reads, i, cpu, addr, len, data, verify, handle,
                   opens, closes, out, cmds, saved, ret>>

\* return usb_bulk_read(handle, 1, data, length, TIMEOUT);
BulkRead ==
    /\ pc = "bulk" /\ call.fn = "download"
    /\ \E res \in BulkResults(call.length) :
       \E damaged \in {d \in BOOLEAN : d => (res > 0 /\ res = call.length)} :
          LET got == DevRead(dev, res, damaged) IN
          /\ trace' = Append(trace, Bulk("bulk_read", 1, call.length, res))
          /\ r' = res
          /\ dev' = [dev EXCEPT !.damaged = @ \/ damaged]
          /\ IF call.buf = "verify"
             THEN verify' = Store(verify, got) /\ data' = data
             ELSE data' = Store(data, got) /\ verify' = verify
    /\ heap' = Append(heap, Use(call.buf))
    /\ pc' = call.back
    /\ call' = NoCall
    /\ UNCHANGED <<mode, argv, reads, i, cpu, addr, len, handle, opens, closes, out,
                   cmds, saved, ret>>


(***************************************************************************)
(* load_file and save_file                                                 *)
(***************************************************************************)
\* load_file(file, &data, &len): the value returned, *len and *data after,
\* and the heap calls made.  fopen fails on a missing file; malloc may
\* return NULL; fread returns 0 for an empty file and on a read error.
load_file(file, oldlen) ==
    IF ~FileExists(file)
    THEN {[r |-> -1, len |-> oldlen, data |-> <<>>, heap |-> <<>>]}
    ELSE LET bytes == FileData(file)
             n == Nat2W(Len(bytes)) IN
         {[r |-> -1, len |-> n, data |-> <<>>, heap |-> <<>>],
          [r |-> -1, len |-> n, data |-> <<>>,
           heap |-> <<Malloc("data"), Use("data"), Free("data")>>]}
         \cup
         {[r |-> 0, len |-> n, data |-> bytes,
           heap |-> <<Malloc("data"), Use("data")>>] :
            ok \in {x \in {TRUE} : Len(bytes) > 0}}

\* save_file(file, data, len): fopen may fail; fwrite returns 0 when len is
\* 0 and on a write error
save_file(file, bytes, n) ==
    {-1} \cup {x \in {0} : n # Nat2W(0)}

(***************************************************************************)
(* cc1800_fiddle                                                           *)
(***************************************************************************)
\* return v;  back in main: r = cc1800_fiddle(...), then usb_close
FiddleReturn(v) == r' = v /\ pc' = "close"

\* for (i = 1; i < argc; i++) { ... } return 0;
LoopTest ==
    /\ pc = "loop"
    /\ IF i < argc
       THEN /\ cmds' = Append(cmds, i) /\ pc' = "probe" /\ r' = r
       ELSE /\ FiddleReturn(0) /\ cmds' = cmds
    /\ UNCHANGED <<mode, argv, reads, i, cpu, addr, len, data, verify, call, handle,
                   opens, closes, trace, out, heap, saved, dev, ret>>

\* mutant: the result of the probe is not looked at
ProbeFailedNever(res) == FALSE

\* if (r < 0) after cc1800_req_get_cpu_info
ProbeFailed(res) == res < 0

\* mutant: the probe is sent only until the CPU info was shown
ProbeOnlyFirst ==
    /\ pc = "probe"
    /\ IF cpu # 0
       THEN /\ pc' = "dispatch" /\ UNCHANGED <<trace, out, r, cpu>>
       ELSE \E res \in ControlResults(8) :
            /\ trace' = Append(trace, ReqGetCpuInfo(res))
            /\ IF res < 0
               THEN /\ out' = Err("ERROR: cannot get CPU info")
                    /\ r' = res /\ pc' = "close" /\ cpu' = cpu
               ELSE /\ r' = res /\ pc' = "dispatch"
                    /\ cpu' = 1 /\ out' = Say("CPU info")
    /\ UNCHANGED <<mode, argv, reads, i, addr, len, data, verify, call, handle,
                   opens, closes, heap, cmds, saved, dev, ret>>

\* mutant: the CPU info is shown after every probe
ProbeAlwaysReports ==
    /\ pc = "probe"
    /\ \E res \in ControlResults(8) :
          /\ trace' = Append(trace, ReqGetCpuInfo(res))
          /\ IF res < 0
             THEN /\ out' = Err("ERROR: cannot get CPU info")
                  /\ r' = res /\ pc' = "close"
                  /\ cpu' = cpu
             ELSE /\ r' = res
                  /\ pc' = "dispatch"
                  /\ cpu' = 1 /\ out' = Say("CPU info")
    /\ UNCHANGED <<mode, argv, reads, i, addr, len, data, verify, call, handle,
                   opens, closes, heap, cmds, saved, dev, ret>>

\* r = cc1800_req_get_cpu_info(handle, s); if (r < 0) return r;
\* if (!cpu) { cpu = 1; printf("CPU info: %s\n", s); }
Probe ==
    /\ pc = "probe"
    /\ \E res \in ControlResults(8) :
          /\ trace' = Append(trace, ReqGetCpuInfo(res))
          /\ IF ProbeFailed(res)
             THEN /\ out' = Err("ERROR: cannot get CPU info")
                  /\ FiddleReturn(res)
                  /\ cpu' = cpu
             ELSE /\ r' = res
                  /\ pc' = "dispatch"
                  /\ IF cpu = 0
                     THEN cpu' = 1 /\ out' = Say("CPU info")
                     ELSE cpu' = cpu /\ out' = out
    /\ UNCHANGED <<mode, argv, reads, i, addr, len, data, verify, call, handle,
                   opens, closes, heap, cmds, saved, dev, ret>>

\* mutant: the chain has no final else, any other word runs as exec
CommandLax(word) ==
    IF StrEq(word, "write") THEN "write"
    ELSE IF StrEq(word, "read") THEN "read"
    ELSE "exec"

\* the branch the strcmp chain takes for argv[i]
Command(word) ==
    IF StrEq(word, "write") THEN "write"
    ELSE IF StrEq(word, "read") THEN "read"
    ELSE IF StrEq(word, "exec") THEN "exec"
    ELSE "unknown"

\* if (!strcmp(argv[i], "write")) { if ((argc - i) < 3) return -1; ...
\* else if (!strcmp(argv[i], "read")) { if ((argc - i) < 4) return -1; ...
\* else if (!strcmp(argv[i], "exec")) ... else return -1;
Dispatch ==
    /\ pc = "dispatch"
    /\ LET c == Command(Arg(i)) IN
       CASE c = "write" ->
              IF (argc - i) < 3
              THEN /\ out' = Err("ERROR: write command requires two arguments")
                   /\ FiddleReturn(-1)
              ELSE pc' = "w_args" /\ UNCHANGED <<r, out>>
         [] c = "read" ->
              IF (argc - i) < 4
              THEN /\ out' = Err("ERROR: read command requires two arguments")
                   /\ FiddleReturn(-1)
              ELSE pc' = "r_args" /\ UNCHANGED <<r, out>>
         [] c = "exec" ->
              /\ pc' = "x_exec" /\ out' = Say("Executing at last address")
              /\ r' = r
         [] OTHER ->
              /\ out' = Err("ERROR: unknown command") /\ FiddleReturn(-1)
    /\ reads' = Append(reads, i)
    /\ UNCHANGED <<mode, argv, i, cpu, addr, len, data, verify, call, handle,
                   opens, closes, trace, heap, cmds, saved, dev, ret>>

\* the values a variable that scan_ulong left at v may be read as
Read(v) == IF v = UNSET THEN Garbage ELSE {v}

\* r = scan_ulong(argv[++i], &addr); if (r < 0) return r;
\* r = load_file(argv[++i], &data, &len); if (r < 0) return r;
\* r = cc1800_upload(handle, data, len, addr);
WriteArgs ==
    /\ pc = "w_args"
    /\ LET sa == scan_ulong(Arg(i + 1), addr) IN
       IF sa.r < 0
       THEN /\ i' = i + 1 /\ addr' = sa.v
            /\ reads' = Append(reads, i + 1)
            /\ out' = Err("ERROR: bad value")
            /\ FiddleReturn(sa.r)
            /\ UNCHANGED <<len, data, heap, call>>
       ELSE \E lf \in load_file(Arg(i + 2), len) :
            /\ i' = i + 2
            /\ reads' = reads \o <<i + 1, i + 2>>
            /\ len' = lf.len
            /\ data' = lf.data
            /\ heap' = heap \o lf.heap
            /\ IF lf.r < 0
               THEN /\ addr' = sa.v
                    /\ out' = Err("ERROR: cannot load file")
                    /\ FiddleReturn(lf.r)
                    /\ call' = call
               ELSE \E a \in Read(sa.v) :
                    /\ addr' = a
                    /\ out' = Say("Uploading data")
                    /\ call' = Upload(ToInt(lf.len), a, "w_uploaded")
                    /\ pc' = "set_address"
                    /\ r' = lf.r
    /\ UNCHANGED <<mode, argv, cpu, verify, handle, opens, closes, trace,
                   cmds, saved, dev, ret>>

\* if (r < 0) after cc1800_upload in the write command
UploadFailed(res) == res < 0

\* the value returned when malloc of the verify buffer fails
VerifyAllocFailure(res) == res

\* mutant: data is not freed when malloc of the verify buffer fails
WriteAfterUploadLeaky ==
    /\ pc = "w_uploaded"
    /\ IF r < 0
       THEN /\ out' = Err("ERROR: CC1800 upload failed")
            /\ heap' = Append(heap, Free("data"))
            /\ data' = <<>>
            /\ r' = r /\ pc' = "close"
            /\ UNCHANGED <<verify, call>>
       ELSE \E got \in BOOLEAN :
            IF ~got
            THEN /\ out' = Err("ERROR: cannot allocate memory")
                 /\ heap' = heap
                 /\ data' = <<>>
                 /\ r' = r /\ pc' = "close"
                 /\ UNCHANGED <<verify, call>>
            ELSE /\ heap' = Append(heap, Malloc("verify"))
                 /\ verify' = Fresh(ToInt(len))
                 /\ out' = Say("Downloading data for verification")
                 /\ call' = Download("verify", ToInt(len), addr, "w_downloaded")
                 /\ pc' = "set_address"
                 /\ UNCHANGED <<r, data>>
    /\ UNCHANGED <<mode, argv, reads, i, cpu, addr, len, handle, opens, closes,
                   trace, cmds, saved, dev, ret>>

\* if (r < 0) { free(data); return r; }
\* verify = malloc(len); if (verify == NULL) { free(data); return r; }
\* r = cc1800_download(handle, verify, len, addr);
WriteAfterUpload ==
    /\ pc = "w_uploaded"
    /\ IF UploadFailed(r)
       THEN /\ out' = Err("ERROR: CC1800 upload failed")
            /\ heap' = Append(heap, Free("data"))
            /\ data' = <<>>
            /\ FiddleReturn(r)
            /\ UNCHANGED <<verify, call>>
       ELSE \E got \in BOOLEAN :
            IF ~got
            THEN /\ out' = Err("ERROR: cannot allocate memory")
                 /\ heap' = Append(heap, Free("data"))
                 /\ data' = <<>>
                 /\ FiddleReturn(VerifyAllocFailure(r))
                 /\ UNCHANGED <<verify, call>>
            ELSE /\ heap' = Append(heap, Malloc("verify"))
                 /\ verify' = Fresh(ToInt(len))
                 /\ out' = Say("Downloading data for verification")
                 /\ call' = Download("verify", ToInt(len), addr, "w_downloaded")
                 /\ pc' = "set_address"
                 /\ UNCHANGED <<r, data>>
    /\ UNCHANGED <<mode, argv, reads, i, cpu, addr, len, handle, opens, closes,
                   trace, cmds, saved, dev, ret>>

\* if (r < 0) after cc1800_download in the write command
VerifyFailed(res) == res < 0

\* mutant: a data mismatch ends the run, as it does in cc1800_execute
WriteAfterDownloadStrict ==
    /\ pc = "w_downloaded"
    /\ data' = <<>> /\ verify' = <<>>
    /\ IF r < 0
       THEN /\ out' = Err("ERROR: CC1800 download failed")
            /\ heap' = heap \o <<Free("verify"), Free("data")>>
            /\ r' = r /\ pc' = "close" /\ i' = i
       ELSE \E differs \in Memcmp(data, verify, Len(data)) :
            /\ heap' = heap \o <<Use("data"), Use("verify"),
                                 Free("verify"), Free("data")>>
            /\ IF differs
               THEN /\ out' = Say("WARNING: data mismatch")
                    /\ r' = -EIO /\ pc' = "close" /\ i' = i
               ELSE /\ r' = 0 /\ out' = out /\ i' = i + 1 /\ pc' = "loop"
    /\ UNCHANGED <<mode, argv, reads, cpu, addr, len, call, handle, opens, closes,
                   trace, cmds, saved, dev, ret>>

\* if (r < 0) { free(verify); free(data); return r; }
\* r = memcmp(data, verify, len); free(verify); free(data);
\* if (r) printf("WARNING: data mismatch\n");          }  i++
WriteAfterDownload ==
    /\ pc = "w_downloaded"
    /\ data' = <<>> /\ verify' = <<>>
    /\ IF VerifyFailed(r)
       THEN /\ out' = Err("ERROR: CC1800 download failed")
            /\ heap' = heap \o <<Free("verify"), Free("data")>>
            /\ FiddleReturn(r)
            /\ i' = i
       ELSE \E differs \in Memcmp(data, verify, Len(data)) :
            /\ heap' = heap \o <<Use("data"), Use("verify"),
                                 Free("verify"), Free("data")>>
            /\ r' = (IF differs THEN 1 ELSE 0)
            /\ out' = (IF differs THEN Say("WARNING: data mismatch") ELSE out)
            /\ i' = i + 1
            /\ pc' = "loop"
    /\ UNCHANGED <<mode, argv, reads, cpu, addr, len, call, handle, opens, closes,
                   trace, cmds, saved, dev, ret>>

\* r = scan_ulong(argv[++i], &addr); if (r < 0) return r;
\* r = scan_ulong(argv[++i], &len); if (r < 0) return r;
\* data = malloc(len); if (data == NULL) return -1;
\* r = cc1800_download(handle, data, len, addr);
ReadArgs ==
    /\ pc = "r_args"
    /\ LET sa == scan_ulong(Arg(i + 1), addr)
           sl == scan_ulong(Arg(i + 2), len) IN
       IF sa.r < 0
       THEN /\ i' = i + 1 /\ addr' = sa.v
            /\ reads' = Append(reads, i + 1)
            /\ out' = Err("ERROR: bad value")
            /\ FiddleReturn(sa.r)
            /\ UNCHANGED <<len, data, heap, call>>
       ELSE IF sl.r < 0
       THEN /\ i' = i + 2 /\ addr' = sa.v /\ len' = sl.v
            /\ reads' = reads \o <<i + 1, i + 2>>
            /\ out' = Err("ERROR: bad value")
            /\ FiddleReturn(sl.r)
            /\ UNCHANGED <<data, heap, call>>
       ELSE \E a \in Read(sa.v), l \in Read(sl.v), got \in BOOLEAN :
            /\ i' = i + 2 /\ addr' = a /\ len' = l
            /\ reads' = reads \o <<i + 1, i + 2>>
            /\ IF ~got
               THEN /\ out' = Err("ERROR: cannot allocate memory")
                    /\ FiddleReturn(-1)
                    /\ UNCHANGED <<data, heap, call>>
               ELSE /\ heap' = Append(heap, Malloc("data"))
                    /\ data' = Fresh(ToInt(l))
                    /\ out' = Say("Downloading data")
                    /\ call' = Download("data", ToInt(l), a, "r_downloaded")
                    /\ pc' = "set_address"
                    /\ r' = sl.r
    /\ UNCHANGED <<mode, argv, cpu, verify, handle, opens, closes, trace,
                   cmds, saved, dev, ret>>

\* mutant: the result of the download is not looked at
DownloadFailedNever(res) == FALSE

\* if (r < 0) after cc1800_download in the read command
DownloadFailed(res) == res < 0

\* if (r < 0) { free(data); return r; }
\* r = save_file(argv[++i], data, len); free(data); if (r < 0) return r;  } i++
ReadAfterDownload ==
    /\ pc = "r_downloaded"
    /\ data' = <<>>
    /\ IF DownloadFailed(r)
       THEN /\ out' = Err("ERROR: CC1800 download failed")
            /\ heap' = Append(heap, Free("data"))
            /\ FiddleReturn(r)
            /\ UNCHANGED <<i, saved, reads>>
       ELSE \E res \in save_file(Arg(i + 1), data, len) :
            /\ reads' = Append(reads, i + 1)
            /\ heap' = heap \o <<Use("data"), Free("data")>>
            /\ IF res < 0
               THEN /\ out' = Err("ERROR: cannot save file")
                    /\ i' = i + 1
                    /\ FiddleReturn(res)
                    /\ saved' = saved
               ELSE /\ saved' = Append(saved, [file |-> Arg(i + 1), bytes |-> data])
                    /\ r' = res
                    /\ i' = i + 2
                    /\ pc' = "loop"
                    /\ out' = out
    /\ UNCHANGED <<mode, argv, cpu, addr, len, verify, call, handle, opens,
                   closes, trace, cmds, dev, ret>>

\* mutant: exec takes the word after it as well
ExecCommandSkips ==
    /\ pc = "x_exec"
    /\ \E res \in ControlResults(0) :
          LET q == ReqExecute(res) IN
          /\ trace' = Append(trace, q)
          /\ dev' = DevControl(dev, q)
          /\ IF res < 0
             THEN /\ out' = Err("ERROR: CC1800 execute failed")
                  /\ r' = res /\ pc' = "close"
                  /\ i' = i
             ELSE /\ r' = res /\ i' = i + 2 /\ pc' = "loop" /\ out' = out
    /\ UNCHANGED <<mode, argv, reads, cpu, addr, len, data, verify, call, handle,
                   opens, closes, heap, cmds, saved, ret>>

\* r = cc1800_req_execute(handle); if (r < 0) return r;   } i++
ExecCommand ==
    /\ pc = "x_exec"
    /\ \E res \in ControlResults(0) :
          LET q == ReqExecute(res) IN
          /\ trace' = Append(trace, q)
          /\ dev' = DevControl(dev, q)
          /\ IF res < 0
             THEN /\ out' = Err("ERROR: CC1800 execute failed")
                  /\ FiddleReturn(res)
                  /\ i' = i
             ELSE /\ r' = res /\ i' = i + 1 /\ pc' = "loop" /\ out' = out
    /\ UNCHANGED <<mode, argv, reads, cpu, addr, len, data, verify, call, handle,
                   opens, closes, heap, cmds, saved, ret>>

(***************************************************************************)
(* cc1800_execute(handle, data, length, address); check is verify          *)
(***************************************************************************)
\* return v;
ExecuteReturn(v) == ret' = v /\ r' = v /\ pc' = "done"

\* char *check = alloca(length); if (check == NULL) return -ENOMEM;
\* (alloca does not return NULL, the branch is dead)
\* r = cc1800_upload(handle, data, length, address);
ExecuteEntry ==
    /\ pc = "e_entry"
    /\ verify' = Fresh(ToInt(len))
    /\ call' = Upload(ToInt(len), addr, "e_uploaded")
    /\ pc' = "set_address"
    /\ UNCHANGED <<mode, argv, reads, i, r, cpu, addr, len, data, handle, opens,
                   closes, trace, out, heap, cmds, saved, dev, ret>>

\* if (r < 0) return r; if (r < length) return -EIO;
\* the value returned before the next step, or 0 to go on
TransferCheck(res, length) ==
    IF res < 0 THEN res ELSE IF res < length THEN -EIO ELSE 0

\* r = cc1800_download(handle, check, length, address);
ExecuteAfterUpload ==
    /\ pc = "e_uploaded"
    /\ IF TransferCheck(r, ToInt(len)) # 0
       THEN ExecuteReturn(TransferCheck(r, ToInt(len))) /\ call' = call
       ELSE /\ call' = Download("verify", ToInt(len), addr, "e_downloaded")
            /\ pc' = "set_address"
            /\ UNCHANGED <<r, ret>>
    /\ UNCHANGED <<mode, argv, reads, i, cpu, addr, len, data, verify, handle, opens,
                   closes, trace, out, heap, cmds, saved, dev>>

\* mutant: the buffers are not compared
CompareCheckNone(differs) == 0

\* if (memcmp(data, check, length)) return -EIO;
CompareCheck(differs) == IF differs THEN -EIO ELSE 0

\* if (r < 0) return r; if (r < length) return -EIO;
\* if (memcmp(data, check, length)) return -EIO;
ExecuteAfterDownload ==
    /\ pc = "e_downloaded"
    /\ IF TransferCheck(r, ToInt(len)) # 0
       THEN ExecuteReturn(TransferCheck(r, ToInt(len))) /\ heap' = heap
       ELSE \E differs \in Memcmp(data, verify, BufLen(ToInt(len))) :
            /\ heap' = heap \o <<Use("data"), Use("verify")>>
            /\ IF CompareCheck(differs) # 0
               THEN ExecuteReturn(CompareCheck(differs))
               ELSE pc' = "e_execute" /\ UNCHANGED <<r, ret>>
    /\ UNCHANGED <<mode, argv, reads, i, cpu, addr, len, data, verify, call, handle,
                   opens, closes, trace, out, cmds, saved, dev>>

\* return cc1800_req_execute(handle);
ExecuteRequest ==
    /\ pc = "e_execute"
    /\ \E res \in ControlResults(0) :
          LET q == ReqExecute(res) IN
          /\ trace' = Append(trace, q)
          /\ dev' = DevControl(dev, q)
          /\ ExecuteReturn(res)
    /\ UNCHANGED <<mode, argv, reads, i, cpu, addr, len, data, verify, call, handle,
                   opens, closes, out, heap, cmds, saved>>

(***************************************************************************)
(* cc1800_req_set_address(handle, addr) and                                *)
(* cc1800_req_set_length(handle, len, wr), called on their own             *)
(***************************************************************************)
\* return usb_control_msg(handle, ..., request, high, low, NULL, 0, TIMEOUT);
RequestCall ==
    /\ pc = "q_request"
    /\ \E res \in ControlResults(0) :
          LET q == IF call.fn = "req_set_address"
                   THEN ReqSetAddress(addr, res)
                   ELSE ReqSetLength(len, call.wr, res) IN
          /\ trace' = Append(trace, q)
          /\ dev' = DevControl(dev, q)
          /\ r' = res /\ ret' = res
    /\ pc' = "done"
    /\ UNCHANGED <<mode, argv, reads, i, cpu, addr, len, data, verify, call, handle,
                   opens, closes, out, heap, cmds, saved>>

(***************************************************************************)
(* The specification                                                       *)
(***************************************************************************)
Next ==
    \/ MainArgs
    \/ Find
    \/ Open
    \/ SetConfiguration
    \/ ClaimInterface
    \/ LoopTest
    \/ Probe
    \/ Dispatch
    \/ WriteArgs
    \/ WriteAfterUpload
    \/ WriteAfterDownload
    \/ ReadArgs
    \/ ReadAfterDownload
    \/ ExecCommand
    \/ SetAddress
    \/ SetLength
    \/ BulkWrite
    \/ BulkRead
    \/ Close
    \/ ExecuteEntry
    \/ ExecuteAfterUpload
    \/ ExecuteAfterDownload
    \/ ExecuteRequest
    \/ RequestCall

Spec == Init /\ [][Next]_vars


(***************************************************************************)
(* Properties                                                              *)
(***************************************************************************)
Trace == 1..Len(trace)
Out == 1..Len(out)

IsControl(q, request) == q.kind = "control" /\ q.req = request
IsProbe(q) == IsControl(q, CC1800_REQ_GET_CPU_INFO)
IsBulk(q) == q.kind \in {"bulk_write", "bulk_read"}
Failed(q) == q.ret < 0

\* the word a SET_ADDRESS or SET_LENGTH request carries
Carried(q) == FromHiLo(q.value, q.index)

\* a bulk transfer: a call of usb_bulk_write or usb_bulk_read that libusb can
\* attempt.  A call with a negative size (a length with bit 31 set, passed
\* through the int parameter of cc1800_upload or cc1800_download) is
\* rejected by libusb and transfers nothing.
IsTransfer(q) == IsBulk(q) /\ q.size >= 0

\* request q is a successful SET_LENGTH for the bulk transfer b: bits 0..30
\* are b's length and bit 31 is set exactly for a bulk write
LengthFor(q, b) ==
    /\ IsControl(q, CC1800_REQ_SET_LENGTH) /\ ~Failed(q)
    /\ Carried(q).low = b.size
    /\ Carried(q).top = (IF b.kind = "bulk_write" THEN 1 ELSE 0)

\* C1: every bulk transfer on endpoint 1 comes right after a successful
\* SET_LENGTH carrying the same length and the matching direction flag,
\* which comes right after a successful SET_ADDRESS; after a failed
\* SET_ADDRESS no SET_LENGTH follows and after a failed SET_LENGTH no bulk
\* transfer follows.
C1_CompositeSequence ==
    \A k \in Trace :
        /\ IsBulk(trace[k]) =>
              /\ trace[k].ep = 1
              /\ k >= 3
              /\ IsControl(trace[k - 1], CC1800_REQ_SET_LENGTH)
              /\ ~Failed(trace[k - 1])
              /\ IsTransfer(trace[k]) => LengthFor(trace[k - 1], trace[k])
              /\ IsControl(trace[k - 2], CC1800_REQ_SET_ADDRESS)
              /\ ~Failed(trace[k - 2])
        /\ (IsControl(trace[k], CC1800_REQ_SET_ADDRESS) /\ Failed(trace[k])
               /\ k < Len(trace)) =>
              ~IsControl(trace[k + 1], CC1800_REQ_SET_LENGTH) /\ ~IsBulk(trace[k + 1])
        /\ (IsControl(trace[k], CC1800_REQ_SET_LENGTH) /\ Failed(trace[k])
               /\ k < Len(trace)) =>
              ~IsBulk(trace[k + 1])

\* C1's case: an upload and a download both ran to their bulk transfer
C1_Witness ==
    /\ \E k \in Trace : trace[k].kind = "bulk_write" /\ trace[k].ret = 16
    /\ \E k \in Trace : trace[k].kind = "bulk_read" /\ trace[k].ret = 16

\* C2: in cc1800_fiddle every command entry begun issues exactly one
\* GET_CPU_INFO, before any other USB request of that entry, so the number
\* of probes is the number of entries begun (less the one about to be sent).
C2_OneProbePerEntry ==
    mode = "main" =>
       /\ Cardinality({k \in Trace : IsProbe(trace[k])})
             = (IF pc = "probe" THEN entries - 1 ELSE entries)
       /\ \A k \in Trace :
             IsProbe(trace[k]) <=> (k = 1 \/ trace[k - 1].entry # trace[k].entry)
       /\ \A k \in Trace : trace[k].entry \in 1..entries

\* C2's case: two entries were begun, the first moved data, both completed
C2_Witness ==
    /\ mode = "main" /\ pc = "done" /\ ret = 0 /\ entries = 2
    /\ \E k \in Trace : IsBulk(trace[k]) /\ trace[k].entry = 1
    /\ \E k \in Trace : IsControl(trace[k], CC1800_REQ_EXECUTE) /\ trace[k].entry = 2

\* C3: a failed probe is the last USB request of the run, whichever entry
\* it belongs to: cc1800_fiddle returns its negative result at once and no
\* further entry is begun.
C3_ProbeFailFast ==
    mode = "main" =>
       \A k \in Trace :
          (IsProbe(trace[k]) /\ Failed(trace[k])) =>
             /\ k = Len(trace)
             /\ entries = trace[k].entry
             /\ pc \in {"close", "done"}
             /\ pc = "close" => r = trace[k].ret
             /\ pc = "done" => ret = trace[k].ret

\* C3's case: the probe of the second entry failed after a first command
\* that moved data
C3_Witness ==
    /\ mode = "main" /\ pc = "done"
    /\ \E k \in Trace : IsProbe(trace[k]) /\ Failed(trace[k]) /\ trace[k].entry = 2
    /\ \E k \in Trace : IsBulk(trace[k]) /\ trace[k].entry = 1

\* a bulk transfer that moved fewer bytes than asked for
Short(q) == IsBulk(q) /\ q.ret >= 0 /\ q.ret < q.size

\* C4 (as claimed): in cc1800_fiddle a short bulk transfer is fatal: it is
\* the last USB request of the run, no further entry is begun, and the value
\* returned is not 0.
C4_ShortTransferFatal ==
    mode = "main" =>
       \A k \in Trace :
          Short(trace[k]) =>
             /\ k = Len(trace)
             /\ entries = trace[k].entry
             /\ pc = "done" => ret # 0


Stderr == {m \in Out : out[m].stream = "stderr"}
Warned(e) ==
    \E m \in Out : out[m].msg = "WARNING: data mismatch" /\ out[m].entry = e

\* entry e is a write command whose upload and verification download both
\* returned a byte count, and whose comparison is done
Compared(e) ==
    /\ Arg(cmds[e]) = "write"
    /\ \E k, j \in Trace :
          /\ trace[k].kind = "bulk_write" /\ trace[k].entry = e /\ trace[k].ret >= 0
          /\ trace[j].kind = "bulk_read" /\ trace[j].entry = e /\ trace[j].ret >= 0
    /\ ~(e = entries /\ pc = "w_downloaded")

\* C5: a data mismatch in a write command whose upload and verification
\* download both returned a count only prints a warning: whatever the bytes
\* read back, the entry reports no error, the loop goes on to the next
\* entry (with its probe) when there is one, and the run returns 0 when
\* nothing else failed.
C5_MismatchIsWarning ==
    mode = "main" =>
       \A e \in 1..entries :
          /\ Warned(e) => Compared(e)
          /\ Compared(e) =>
                /\ \A m \in Stderr : out[m].entry # e
                /\ pc \in {"loop", "close", "done"} \/ entries > e
                /\ (pc \in {"close", "done"} /\ cmds[e] + 3 < argc) => entries > e
                /\ (entries > e /\ ~(pc = "probe" /\ entries = e + 1)) =>
                      \E k \in Trace : IsProbe(trace[k]) /\ trace[k].entry = e + 1
                /\ (pc = "done" /\ Stderr = {}) => ret = 0

\* C5's case: the first of two commands warned of a mismatch after a full
\* upload and a full, damaged read-back, the second ran, and main returned 0
C5_Witness ==
    /\ mode = "main" /\ pc = "done" /\ ret = 0 /\ entries = 2 /\ Warned(1)
    /\ \E k \in Trace : trace[k].kind = "bulk_read" /\ trace[k].entry = 1
                         /\ trace[k].ret = trace[k].size
    /\ \E k \in Trace : trace[k].entry = 2 /\ ~IsProbe(trace[k])

\* C6: cc1800_execute issues EXECUTE exactly when the upload moved all
\* bytes, the download moved all bytes and the buffers are equal; then it
\* is issued once, last, after the download; otherwise the call returns a
\* negative value and EXECUTE is not issued.
C6_ExecuteIffVerified ==
    mode = "execute" =>
       LET n == Len(data)
           ex == {k \in Trace : IsControl(trace[k], CC1800_REQ_EXECUTE)}
           up == {k \in Trace : trace[k].kind = "bulk_write" /\ trace[k].ret = n}
           down == {k \in Trace : trace[k].kind = "bulk_read" /\ trace[k].ret = n}
           verified == up # {} /\ down # {} /\ verify = data
       IN  /\ Cardinality(ex) <= 1
           /\ \A k \in ex :
                 /\ k = Len(trace)
                 /\ verified
                 /\ \E u \in up, d \in down : u < d /\ d < k
           /\ pc = "done" => (ex # {} <=> verified)
           /\ (pc = "done" /\ ex = {}) => ret < 0

\* C6's case: 16 bytes were uploaded, read back equal, and EXECUTE was sent
C6_Witness ==
    /\ mode = "execute" /\ pc = "done" /\ ret = 0 /\ Len(data) = 16
    /\ \E k \in Trace : IsControl(trace[k], CC1800_REQ_EXECUTE)

\* C7: main opens the handle at most once, closes it exactly once before it
\* returns whenever it was opened, and every USB request is issued on the
\* open handle.
C7_HandleOpenedAndClosedOnce ==
    mode = "main" =>
       /\ opens <= 1
       /\ closes <= opens
       /\ pc = "done" => closes = opens
       /\ handle = "closed" => pc = "done"
       /\ \A k \in Trace : trace[k].handle = "open"

\* C7's case: a transfer failed inside cc1800_fiddle and main has returned
C7_Witness ==
    /\ mode = "main" /\ pc = "done" /\ opens = 1 /\ closes = 1 /\ ret < 0
    /\ \E k \in Trace : IsBulk(trace[k]) /\ Failed(trace[k])

\* C8 (as claimed): main returns 0 exactly when every command completed;
\* whenever something failed (each failure prints to stderr: discovery,
\* open, configuration, claim, probe, transfer, file, allocation, unknown
\* command, bad argument) it returns a value other than 0.
C8_ExitStatus ==
    (mode = "main" /\ pc = "done") => (ret = 0 <=> Stderr = {})

\* a word that is none of the three commands
UnknownWord(word) == word \notin {"write", "read", "exec"}

\* C9 (as claimed): an entry naming an unknown command issues no USB request
\* at all before the run is aborted.
C9_UnknownBeforeDevice ==
    mode = "main" =>
       \A e \in 1..entries :
          UnknownWord(Arg(cmds[e])) => \A k \in Trace : trace[k].entry # e

\* C9 (amended): an entry naming an unknown command issues no USB request
\* but its GET_CPU_INFO probe, and then aborts the run with an error: no
\* further entry is begun.
C9_UnknownAbortsAfterProbe ==
    mode = "main" =>
       \A e \in 1..entries :
          UnknownWord(Arg(cmds[e])) =>
             /\ \A k \in Trace : trace[k].entry = e => IsProbe(trace[k])
             /\ e = entries
             /\ pc \in {"probe", "dispatch", "close", "done"}
             /\ pc = "close" => r < 0
             /\ pc = "done" => ret < 0

\* C9's case: the second entry is an unknown command, its probe succeeded,
\* the error was printed and main has returned
C9_Witness ==
    /\ mode = "main" /\ pc = "done" /\ entries = 2
    /\ UnknownWord(Arg(cmds[2]))
    /\ \E m \in Stderr : out[m].msg = "ERROR: unknown command" /\ out[m].entry = 2
    /\ \E k \in Trace : IsBulk(trace[k]) /\ trace[k].entry = 1

\* a valid 0x-prefixed hexadecimal literal, a valid decimal literal
IsHexLiteral(s) ==
    /\ Len(s) >= 3 /\ s[1] = "0" /\ s[2] \in {"x", "X"}
    /\ \A k \in 3..Len(s) : DigitVal(s[k], 16) >= 0
IsDecLiteral(s) ==
    /\ Len(s) >= 1
    /\ \A k \in 1..Len(s) : DigitVal(s[k], 10) >= 0
Malformed(word) == ~IsHexLiteral(Chars(word)) /\ ~IsDecLiteral(Chars(word))

\* entry e is a write or read command, with all its arguments, whose
\* address or length is a malformed literal
MalformedEntry(e) ==
    LET c == cmds[e] IN
    \/ Arg(c) = "write" /\ argc - c >= 3 /\ Malformed(Arg(c + 1))
    \/ Arg(c) = "read" /\ argc - c >= 4
          /\ (Malformed(Arg(c + 1)) \/ Malformed(Arg(c + 2)))

\* C10 (as claimed): a write or read command with a malformed address or
\* length ends the run with an error without any SET_ADDRESS, SET_LENGTH or
\* bulk transfer for that entry.
C10_MalformedLiteralRejected ==
    mode = "main" =>
       \A e \in 1..entries :
          MalformedEntry(e) =>
             /\ \A k \in Trace : trace[k].entry = e => IsProbe(trace[k])
             /\ e = entries
             /\ pc = "close" => r < 0
             /\ pc = "done" => ret < 0

\* the USB requests of entry e, in order
Requests(e) == SelectSeq(trace, LAMBDA q : q.entry = e)

\* entry e is over: a later entry was begun, or cc1800_fiddle has returned
Over(e) == entries > e \/ pc \in {"loop", "close", "done"}

\* entry e printed nothing to stderr and none of its requests failed
Clean(e) ==
    /\ \A m \in Stderr : out[m].entry # e
    /\ \A k \in Trace : trace[k].entry = e => ~Failed(trace[k])

\* the number a literal of the command lines denotes
Denotes(word) ==
    CASE word = "0x0"    -> 0
      [] word = "0X10"   -> 16
      [] word = "64"     -> 64
      [] word = "0x1000" -> 4096
      [] word = "0x2000" -> 8192
      [] OTHER           -> -1

\* entry e is a read command, with all its arguments, whose address is a
\* valid hexadecimal literal and whose length is a valid decimal literal
DecimalRead(e) ==
    LET c == cmds[e] IN
    /\ Arg(c) = "read" /\ argc - c >= 4
    /\ IsHexLiteral(Chars(Arg(c + 1)))
    /\ IsDecLiteral(Chars(Arg(c + 2)))

\* C11 (as claimed): a read command with a valid hexadecimal address and a
\* valid decimal length is accepted (no bad-value error), and when nothing
\* fails its requests are exactly the probe, SET_ADDRESS(high, low of the
\* address), SET_LENGTH(high, low of the length, bit 31 clear) and a bulk
\* read of that many bytes, after which the bytes are saved to the file.
C11_DecimalLengthRead ==
    mode = "main" =>
       \A e \in 1..entries :
          DecimalRead(e) =>
             LET c == cmds[e]
                 a == Denotes(Arg(c + 1))
                 n == Denotes(Arg(c + 2))
                 q == Requests(e) IN
             /\ \A m \in Stderr :
                   out[m].entry = e => out[m].msg # "ERROR: bad value"
             /\ (Over(e) /\ Clean(e)) =>
                   /\ Len(q) = 4
                   /\ IsProbe(q[1])
                   /\ IsControl(q[2], CC1800_REQ_SET_ADDRESS)
                   /\ q[2].value = a \div Two16 /\ q[2].index = a % Two16
                   /\ IsControl(q[3], CC1800_REQ_SET_LENGTH)
                   /\ q[3].value = n \div Two16 /\ q[3].index = n % Two16
                   /\ q[4].kind = "bulk_read" /\ q[4].size = n
                   /\ \E f \in 1..Len(saved) : saved[f].file = Arg(c + 3)

\* what a request says on the wire
Shape(q) == [kind |-> q.kind, req |-> q.req, ep |-> q.ep, value |-> q.value,
             index |-> q.index, size |-> q.size]
ControlShape(request, high, low, size) ==
    [kind |-> "control", req |-> request, ep |-> 0, value |-> high,
     index |-> low, size |-> size]
BulkShape(kind, size) ==
    [kind |-> kind, req |-> -1, ep |-> 1, value |-> 0, index |-> 0,
     size |-> size]

\* the requests of a write of n bytes to address a, 0 <= a, n < 2^31
WriteSequence(a, n) ==
    << ControlShape(CC1800_REQ_GET_CPU_INFO, 0, 0, 8),
       ControlShape(CC1800_REQ_SET_ADDRESS, a \div Two16, a % Two16, 0),
       ControlShape(CC1800_REQ_SET_LENGTH, Two15 + n \div Two16, n % Two16, 0),
       BulkShape("bulk_write", n),
       ControlShape(CC1800_REQ_SET_ADDRESS, a \div Two16, a % Two16, 0),
       ControlShape(CC1800_REQ_SET_LENGTH, n \div Two16, n % Two16, 0),
       BulkShape("bulk_read", n) >>

\* entry e is a write command, with all its arguments, whose address is a
\* valid hexadecimal literal and whose file holds at least one byte
PlainWrite(e) ==
    LET c == cmds[e] IN
    /\ Arg(c) = "write" /\ argc - c >= 3
    /\ IsHexLiteral(Chars(Arg(c + 1)))
    /\ FileExists(Arg(c + 2)) /\ Len(FileData(Arg(c + 2))) >= 1

\* C12: the requests of a write command with address a and an n-byte file
\* are at every moment a prefix of: probe, SET_ADDRESS(a), SET_LENGTH(n with
\* bit 31 set), bulk write of n bytes, SET_ADDRESS(a), SET_LENGTH(n with bit
\* 31 clear), bulk read of n bytes; when the entry is over and nothing
\* failed they are all seven, and the comparison that follows warns of no
\* mismatch when both transfers were complete and undamaged.
C12_WriteSequence ==
    mode = "main" =>
       \A e \in 1..entries :
          PlainWrite(e) =>
             LET c == cmds[e]
                 w == WriteSequence(Denotes(Arg(c + 1)), Len(FileData(Arg(c + 2))))
                 q == Requests(e) IN
             /\ Len(q) <= Len(w)
             /\ \A k \in 1..Len(q) : Shape(q[k]) = w[k]
             /\ (Over(e) /\ Clean(e)) =>
                   /\ Len(q) = Len(w)
                   /\ Compared(e)
                   /\ (q[4].ret = q[4].size /\ q[7].ret = q[7].size /\ ~dev.damaged)
                         => ~Warned(e)

\* C12's case: write 0x1000 payload.bin ran alone and completed: seven
\* requests, the second and third carrying (0x0000, 0x1000), (0x8000, 0x0010)
C12_Witness ==
    /\ mode = "main" /\ pc = "done" /\ ret = 0 /\ entries = 1
    /\ PlainWrite(1) /\ Clean(1) /\ ~Warned(1)
    /\ Arg(2) = "0x1000" /\ Arg(3) = "payload.bin"
    /\ Len(trace) = 7
    /\ trace[2].value = 0 /\ trace[2].index = 4096
    /\ trace[3].value = 32768 /\ trace[3].index = 16
    /\ trace[4].ret = 16 /\ trace[7].ret = 16

\* the EXECUTE requests the exec command issued, and the SET_ADDRESS
\* requests issued before request k
Executes == {k \in Trace : IsControl(trace[k], CC1800_REQ_EXECUTE)}
AddressesBefore(k) ==
    {j \in 1..(k - 1) : IsControl(trace[j], CC1800_REQ_SET_ADDRESS)}
LastAddressBefore(k) ==
    CHOOSE j \in AddressesBefore(k) : \A x \in AddressesBefore(k) : x <= j

\* the address the device executed at for request k, a successful EXECUTE
ExecutedAt(k) ==
    dev.runs[Cardinality({x \in Executes : x <= k /\ ~Failed(trace[x])})]

\* C13 (as claimed): whenever the exec command issues EXECUTE, a write or
\* read command of the same run has sent a SET_ADDRESS before it, which set
\* the address the device holds.
C13_ExecAfterAddressSet ==
    mode = "main" =>
       \A k \in Executes :
          \E j \in AddressesBefore(k) :
             Arg(cmds[trace[j].entry]) \in {"write", "read"}

\* C13 (amended): whenever the exec command issues EXECUTE, the request
\* carries no address (both fields 0) and the entry sends nothing but its
\* probe and the EXECUTE, in particular no SET_ADDRESS.  If a SET_ADDRESS was
\* sent earlier in the run, the most recent one succeeded, belongs to an
\* earlier write or read command and carries that command's address, and it
\* is the address the device executes at.  If none was sent (no write or
\* read came before), the device executes at the address it held before the
\* run.
C13_ExecUsesRetainedAddress ==
    mode = "main" =>
       \A k \in Executes :
          LET e == trace[k].entry
              q == Requests(e) IN
          /\ Arg(cmds[e]) = "exec"
          /\ trace[k].value = 0 /\ trace[k].index = 0
          /\ Len(q) <= 2 /\ IsProbe(q[1]) /\ q[Len(q)] = trace[k]
          /\ IF AddressesBefore(k) # {}
             THEN LET j == LastAddressBefore(k)
                      c == cmds[trace[j].entry] IN
                  /\ ~Failed(trace[j])
                  /\ trace[j].entry < e
                  /\ Arg(c) \in {"write", "read"}
                  /\ IsHexLiteral(Chars(Arg(c + 1))) =>
                        Carried(trace[j]) = Nat2W(Denotes(Arg(c + 1)))
                  /\ ~Failed(trace[k]) => ExecutedAt(k) = Carried(trace[j])
             ELSE /\ \A x \in 1..(e - 1) : Arg(cmds[x]) = "exec"
                  /\ ~Failed(trace[k]) => ExecutedAt(k) = InitDev.addr

\* C13's case: write 0x1000 payload.bin, then exec: the write verified and
\* EXECUTE succeeded with the device holding 0x1000
C13_Witness ==
    /\ mode = "main" /\ pc = "done" /\ ret = 0 /\ entries = 2
    /\ Arg(1) = "write" /\ Arg(2) = "0x1000" /\ Arg(4) = "exec"
    /\ ~Warned(1)
    /\ \E k \in Executes : ~Failed(trace[k]) /\ trace[k].entry = 2
    /\ dev.runs = <<Nat2W(4096)>>

\* bit b (0..31) of a word, and bit b (0..15) of a 16-bit request field
RECURSIVE Pow2(_)
Pow2(b) == IF b = 0 THEN 1 ELSE 2 * Pow2(b - 1)
Bit(x, b) == IF b = 31 THEN x.top ELSE (x.low \div Pow2(b)) % 2
FieldBit(f, b) == (f \div Pow2(b)) % 2
IsField(f) == f \in 0..(Two16 - 1)

\* C14: for every 32-bit addr, cc1800_req_set_address sends SET_ADDRESS with
\* two 16-bit fields, high holding bits 16..31 of addr and low holding bits
\* 0..15, and (high << 16) | low is addr again.
C14_AddressSplitRoundTrip ==
    (mode = "request" /\ call.fn = "req_set_address" /\ trace # <<>>) =>
       LET q == trace[1] IN
       /\ Len(trace) = 1
       /\ IsControl(q, CC1800_REQ_SET_ADDRESS)
       /\ IsField(q.value) /\ IsField(q.index)
       /\ \A b \in 0..15 :
             /\ FieldBit(q.index, b) = Bit(addr, b)
             /\ FieldBit(q.value, b) = Bit(addr, b + 16)
       /\ FromHiLo(q.value, q.index) = addr

\* C14's case: the address 0x92345678 was sent as (0x9234, 0x5678)
C14_Witness ==
    /\ mode = "request" /\ call.fn = "req_set_address" /\ pc = "done"
    /\ addr = W(1, 305419896)
    /\ trace[1].value = 37428 /\ trace[1].index = 22136

\* C15: for every 32-bit len and both values of wr, cc1800_req_set_length
\* sends SET_LENGTH with two 16-bit fields whose reassembly
\* (high << 16) | low has bit 31 equal to wr and bits 0..30 equal to those
\* of len, whatever bit 31 of len was.
C15_LengthDirectionBit ==
    (mode = "request" /\ call.fn = "req_set_length" /\ trace # <<>>) =>
       LET q == trace[1]
           v == FromHiLo(q.value, q.index) IN
       /\ Len(trace) = 1
       /\ IsControl(q, CC1800_REQ_SET_LENGTH)
       /\ IsField(q.value) /\ IsField(q.index)
       /\ FieldBit(q.value, 15) = call.wr
       /\ \A b \in 0..15 : FieldBit(q.index, b) = Bit(len, b)
       /\ \A b \in 0..14 : FieldBit(q.value, b) = Bit(len, b + 16)
       /\ v.top = call.wr
       /\ v.low = len.low

\* C15's case: a length with bit 31 set, 0x80000040, was sent for a read
\* (wr = 0) as (0x0000, 0x0040)
C15_Witness ==
    /\ mode = "request" /\ call.fn = "req_set_length" /\ pc = "done"
    /\ len = W(1, 64) /\ call.wr = 0
    /\ trace[1].value = 0 /\ trace[1].index = 64

\* request k is the bulk read of a cc1800_download that came right after a
\* cc1800_upload in the same call or entry (requests k - 5 .. k), both bulk
\* transfers moved all the bytes asked for, and the device returned what it
\* holds
RoundTrip(k) ==
    /\ k >= 6
    /\ trace[k].kind = "bulk_read" /\ trace[k - 3].kind = "bulk_write"
    /\ trace[k].entry = entries /\ trace[k - 3].entry = entries
    /\ \A j \in (k + 1)..Len(trace) : ~IsBulk(trace[j])
    /\ trace[k].ret = trace[k].size
    /\ trace[k - 3].ret = trace[k - 3].size
    /\ ~dev.damaged

\* the upload's data and the download's buffer are both at hand: after the
\* download of cc1800_execute, and after the verification download of write
BuffersAtHand ==
    \/ mode = "execute" /\ pc \in {"e_downloaded", "e_execute", "done"}
    \/ mode = "main" /\ pc = "w_downloaded"

\* C16: against a device that stores the bytes written at its address
\* register and returns them on a read, when cc1800_upload(data, n, address)
\* is followed by cc1800_download(buffer, n, address) and neither transfer
\* fails or falls short, the buffer equals data, both calls report
\* n = len(data) bytes, and both set the same address: for data of 0, 1 and
\* 16 bytes and addresses with bit 31 clear and set.
C16_UploadDownloadRoundTrip ==
    BuffersAtHand =>
       \A k \in Trace :
          RoundTrip(k) =>
             /\ verify = data
             /\ trace[k].ret = Len(data)
             /\ trace[k - 3].ret = Len(data)
             /\ pc \in {"e_downloaded", "w_downloaded"} => r = Len(data)
             /\ Carried(trace[k - 2]) = addr
             /\ Carried(trace[k - 5]) = addr

\* C16's case: cc1800_execute moved 16 bytes to 0x80001000 and back
C16_Witness ==
    /\ mode = "execute" /\ pc = "e_downloaded"
    /\ Len(data) = 16 /\ addr = W(1, 4096)
    /\ Len(trace) = 6 /\ RoundTrip(6)
    /\ verify = data /\ r = 16

\* the requests of entry e that are SET_ADDRESS, SET_LENGTH for a write
\* (bit 31 set: bit 15 of the high field) and for a read, and bulk transfers
Issued(e, request) ==
    {k \in Trace : trace[k].entry = e /\ IsControl(trace[k], request)}
LengthsIssued(e, wr) ==
    {k \in Issued(e, CC1800_REQ_SET_LENGTH) : trace[k].value \div Two15 = wr}
BulksIssued(e, kind) ==
    {k \in Trace : trace[k].entry = e /\ trace[k].kind = kind}

\* C17: nothing is retried.  A request of cc1800_fiddle that returned an
\* error is the last request of the run: none follows it on the handle,
\* which is closed when main returns.  Within one entry each step is issued
\* at most once: one probe, one EXECUTE, and for each composite (one upload
\* and one download in a write, one download in a read) one SET_ADDRESS, one
\* SET_LENGTH and one bulk transfer.
C17_NothingRetried ==
    mode = "main" =>
       /\ \A k \in Trace : Failed(trace[k]) =>
             /\ k = Len(trace)
             /\ pc \in {"w_uploaded", "w_downloaded", "r_downloaded", "close", "done"}
             /\ pc = "done" => handle = "closed" /\ ret = trace[k].ret
       /\ \A e \in 1..entries :
             LET uploads == BulksIssued(e, "bulk_write")
                 downloads == BulksIssued(e, "bulk_read")
                 composites == IF Arg(cmds[e]) = "write" THEN 2
                               ELSE IF Arg(cmds[e]) = "read" THEN 1 ELSE 0 IN
             /\ Cardinality(Issued(e, CC1800_REQ_GET_CPU_INFO)) <= 1
             /\ Cardinality(Issued(e, CC1800_REQ_EXECUTE)) <= 1
             /\ Cardinality(Issued(e, CC1800_REQ_SET_ADDRESS)) <= composites
             /\ Cardinality(LengthsIssued(e, 1)) <= 1
             /\ Cardinality(LengthsIssued(e, 0)) <= 1
             /\ Cardinality(uploads) <= 1
             /\ Cardinality(downloads) <= 1
             /\ \A j, k \in Issued(e, CC1800_REQ_SET_ADDRESS) :
                   j < k => \E u \in uploads : j < u /\ u < k

\* C17's case: after an exec that succeeded, the SET_LENGTH of a read
\* failed; main has closed the handle and returned the error
C17_Witness ==
    /\ mode = "main" /\ pc = "done" /\ handle = "closed" /\ entries = 2
    /\ Len(trace) = 5
    /\ IsControl(trace[2], CC1800_REQ_EXECUTE) /\ ~Failed(trace[2])
    /\ IsControl(trace[5], CC1800_REQ_SET_LENGTH) /\ Failed(trace[5])
    /\ ret = trace[5].ret

\* buffer b is allocated and not yet freed just before entry k of the heap
\* history
LiveBefore(b, k) ==
    \E m \in 1..(k - 1) :
       /\ heap[m] = Malloc(b)
       /\ \A j \in (m + 1)..(k - 1) : heap[j] \notin {Malloc(b), Free(b)}

\* cc1800_fiddle is between two commands or has returned
NoCommandRunning ==
    pc \in {"loop", "probe", "dispatch", "w_args", "r_args", "x_exec",
            "close", "done"}

\* C18: in a run of cc1800_fiddle every buffer (the file data of write, its
\* verification buffer, the buffer of read) is read, written and freed only
\* while allocated, so none is freed twice or used after free, and none is
\* allocated again while still held; between commands and on every return,
\* on success and on each error path, every buffer allocated has been freed.
C18_BuffersFreedOnce ==
    mode = "main" =>
       /\ \A k \in 1..Len(heap) :
             IF heap[k].op = "malloc"
             THEN ~LiveBefore(heap[k].buf, k)
             ELSE LiveBefore(heap[k].buf, k)
       /\ NoCommandRunning =>
             \A b \in {"data", "verify"} :
                /\ ~LiveBefore(b, Len(heap) + 1)
                /\ Cardinality({k \in 1..Len(heap) : heap[k] = Malloc(b)})
                      = Cardinality({k \in 1..Len(heap) : heap[k] = Free(b)})

\* C18's case: the verification download of a write failed at its bulk
\* read; both buffers were freed, verify first, and main has returned
C18_Witness ==
    /\ mode = "main" /\ pc = "done" /\ ret < 0 /\ trace # <<>>
    /\ trace[Len(trace)].kind = "bulk_read" /\ Failed(trace[Len(trace)])
    /\ Len(heap) >= 4
    /\ \E k \in 1..Len(heap) : heap[k] = Malloc("verify")
    /\ heap[Len(heap) - 1] = Free("verify")
    /\ heap[Len(heap)] = Free("data")

\* the number of words a command takes: its name and its arguments
Takes(word) ==
    CASE word = "write" -> 3
      [] word = "read"  -> 4
      [] word = "exec"  -> 1
      [] OTHER          -> 0

\* entry e is a write or read command with too few words left for it
CutShort(e) ==
    Arg(cmds[e]) \in {"write", "read"} /\ argc - cmds[e] < Takes(Arg(cmds[e]))

\* C19: cc1800_fiddle reads argv strictly left to right: the indices read
\* increase strictly (no argument is read twice) and all lie in 1..argc-1;
\* the index i never falls behind an argument already read and never passes
\* argc, which it equals when cc1800_fiddle returns with no error
\* reported; an entry that completed took exactly its words (write 3, read 4,
\* exec 1) and read each of them, the next entry starting right after; a
\* write or read with too few words left reads only its name, prints an
\* error and ends the run with a negative result.
C19_ArgumentsLeftToRight ==
    mode = "main" =>
       /\ \A k \in 1..Len(reads) : reads[k] \in 1..(argc - 1)
       /\ \A k \in 1..(Len(reads) - 1) : reads[k] < reads[k + 1]
       /\ \A e \in 1..(entries - 1) : cmds[e] < cmds[e + 1]
       /\ entries > 0 => (cmds[1] = 1 /\ cmds[entries] <= i)
       /\ reads # <<>> => reads[Len(reads)] <= i
       /\ i <= argc
       /\ (pc \in {"close", "done"} /\ entries > 0 /\ Stderr = {}) => i = argc
       /\ \A e \in 1..entries :
             LET c == cmds[e]
                 next == IF e < entries THEN cmds[e + 1] ELSE i IN
             /\ (e < entries \/ pc = "loop") =>
                   /\ next = c + Takes(Arg(c))
                   /\ Takes(Arg(c)) > 0
                   /\ \A x \in c..(next - 1) : \E k \in 1..Len(reads) : reads[k] = x
             /\ CutShort(e) =>
                   /\ e = entries
                   /\ \A k \in 1..Len(reads) : reads[k] <= c
                   /\ pc \in {"probe", "dispatch", "close", "done"}
                   /\ pc = "close" =>
                         (r < 0 /\ \E m \in Stderr : out[m].entry = e)
                   /\ pc = "done" => ret < 0

\* C19's case: write 0x0 a.bin, exec, then a write with one word left where
\* it needs two: the first two commands took words 1..3 and 4, all read
\* once and in order, and the last write ended the run after reading its name
C19_Witness ==
    /\ mode = "main" /\ pc = "done" /\ ret = -1
    /\ argc = 7 /\ cmds = <<1, 4, 5>>
    /\ Arg(1) = "write" /\ Arg(4) = "exec" /\ Arg(5) = "write"
    /\ CutShort(3)
    /\ reads = <<1, 2, 3, 4, 5>>

\* the messages reporting the CPU identifier
Reports == {m \in Out : out[m].msg = "CPU info"}

\* C20: in a run of cc1800_fiddle the CPU identifier is reported at most
\* once; it is reported exactly when the first probe succeeded, together
\* with that probe: in the first entry, before any other message of a
\* command and before any further request; later successful probes report
\* nothing, and after a failed first probe nothing is ever reported.
C20_CpuInfoReportedOnce ==
    mode = "main" =>
       /\ Cardinality(Reports) <= 1
       /\ Reports # {} <=> (trace # <<>> /\ ~Failed(trace[1]))
       /\ Reports # {} <=> cpu = 1
       /\ trace # <<>> => IsProbe(trace[1])
       /\ \A m \in Reports :
             /\ out[m].stream = "stdout"
             /\ out[m].entry = 1
             /\ \A j \in 1..(m - 1) : out[j].entry = 0

\* C20's case: two commands ran, each after a successful probe, and the
\* CPU identifier was reported once
C20_Witness ==
    /\ mode = "main" /\ pc = "done" /\ ret = 0 /\ entries = 2
    /\ Cardinality({k \in Trace : IsProbe(trace[k]) /\ ~Failed(trace[k])}) = 2
    /\ Cardinality(Reports) = 1

=============================================================================
